---- MODULE Spec2Model ----
(***************************************************************************)
(* A model of the uqbar IoC container (src/index.js): the Registry, the    *)
(* interface index and the Instance Cache, the four registration entry     *)
(* points, and the resolution engine (resolve / call / callSync /          *)
(* callCtor) with the callbacks it leaves behind.                          *)
(*                                                                         *)
(* JavaScript runs one call to completion before anything else happens.    *)
(* Each public call (and each later completion of a deferred factory or    *)
(* of a setImmediate) is therefore one action; the synchronous work it     *)
(* triggers is computed by Run, which executes the pending invocations in  *)
(* call-stack order.                                                       *)
(***************************************************************************)
EXTENDS Integers, Sequences, FiniteSets, TLC

\* ------------------------------------------------------------------ bounds
\* Number of registration calls made after construction.
MaxRegs == 1
\* Number of resolve / call invocations issued by the application.
MaxReqs == 2

\* Identifiers used as service names and as interface names.
Names == {"a", "b", "i"}

\* More factory-invoking resolutions in progress than there are names means
\* a name is being resolved inside its own resolution: the recursion of
\* resolve -> factory -> resolve never ends and the engine overflows the
\* call stack.
MaxDepth == Cardinality(Names) + 1

\* ------------------------------------------------------------------ values
\* A JavaScript value: a primitive / object identity n, or an array.
\* n = 0 stands for the falsy values (0, '', null, false), n = -1 for
\* undefined, n > 0 for distinct object identities.
Val(n) == [arr |-> FALSE, n |-> n, items |-> <<>>]
Arr(s) == [arr |-> TRUE, n |-> 0, items |-> s]
Undefined == Val(-1)
Falsy == Val(0)
\* JavaScript truthiness, as used by `if (instance)`.
Truthy(v) == v.arr \/ v.n > 0

\* Errors delivered through callbacks.
NoErr == [type |-> "none", name |-> ""]
UnknownErr(name) == [type |-> "unknown service or interface", name |-> name]
FactoryErr == [type |-> "factory error", name |-> ""]

\* ------------------------------------------------------------------ factories
\* A caller-supplied function: its formal parameter names (what
\* get-parameter-names returns; factory.length is their number), its
\* '@require' attribute, and what it does when invoked:
\*   "ok"    produces a value (a fresh object, or a falsy value if falsy)
\*   "fail"  signals an error through its callback
\*   "defer" keeps its callback and completes later
\*   "throw" raises
Fn(params, hasReq, req, beh, falsy) ==
  [params |-> params, hasReq |-> hasReq, req |-> req, beh |-> beh, falsy |-> falsy]

\* Functions taking a trailing completion callback (register, call).
DeferLeaf == Fn(<<"callback">>, FALSE, <<>>, "defer", FALSE)
AsyncDeps == Fn(<<"b", "a", "callback">>, FALSE, <<>>, "ok", FALSE)
AsyncReqOnly == Fn(<<"callback">>, TRUE, <<"a">>, "ok", FALSE)
AsyncReq == Fn(<<"x", "callback">>, TRUE, <<"i", "b">>, "ok", FALSE)

\* Functions returning their value (registerSync, registerCtor).
SyncLeaf == Fn(<<>>, FALSE, <<>>, "ok", FALSE)
SyncFalsy == Fn(<<>>, FALSE, <<>>, "ok", TRUE)
SyncThrows == Fn(<<>>, FALSE, <<>>, "throw", FALSE)
SyncDeps == Fn(<<"b", "a">>, FALSE, <<>>, "ok", FALSE)
SyncDepA == Fn(<<"a">>, FALSE, <<>>, "ok", FALSE)
SyncReq == Fn(<<"x", "y">>, TRUE, <<"b", "a">>, "ok", FALSE)

NoFn == Fn(<<>>, FALSE, <<>>, "none", FALSE)

\* ------------------------------------------------------------------ state
VARIABLES
  registry,     \* _registry: name -> record, NoReg when absent
  instances,    \* _instances: a function whose domain is the cached names
  interfaces,   \* _interfaces: name -> implementation sequence (<<>> absent)
  conts,        \* the callbacks created so far (closures awaiting a result)
  maps,         \* the async.map invocations created so far
  pending,      \* callbacks kept by deferred factories
  immediates,   \* the setImmediate queue
  reqs,         \* resolve / call invocations issued by the application
  delivered,    \* per request: what its callback has been invoked with
  calls,        \* log of invocations of caller-supplied functions
  resolved,     \* log of completions of single-name resolutions
  thrown,       \* log of exceptions that left the engine
  nextVal,      \* next fresh object identity
  regs,         \* log of the registration calls made after construction
  rejected      \* log of the registration calls that failed at the call site

vars == <<registry, instances, interfaces, conts, maps, pending, immediates,
          reqs, delivered, calls, resolved, thrown, nextVal, regs, rejected>>

NoReg == [kind |-> "none", fac |-> NoFn, inst |-> Undefined, singleton |-> FALSE]

\* The same with the last parameter always dropped.
getDependenciesNamesSliced(func, ignoreLastArg) ==
  IF func.hasReq THEN func.req
  ELSE SubSeq(func.params, 1, Len(func.params) - 1)

\* getDependenciesNames(func, ignoreLastArg)
getDependenciesNames(func, ignoreLastArg) ==
  IF func.hasReq THEN func.req
  ELSE IF ignoreLastArg
       THEN SubSeq(func.params, 1, Len(func.params) - 1)
       ELSE func.params

\* The same with a name kept out of a sequence it is already in.
addInterfaceMappingOnce(ix, name, ifs) ==
  [x \in DOMAIN ix |->
     IF (\E p \in 1..Len(ifs) : ifs[p] = x) /\ (\A p \in 1..Len(ix[x]) : ix[x][p] # name)
     THEN Append(ix[x], name) ELSE ix[x]]

\* _addInterfaceMapping(name, interfaces), applied to the interface index ix
RECURSIVE addInterfaceMapping(_, _, _)
addInterfaceMapping(ix, name, ifs) ==
  IF Len(ifs) = 0 THEN ix
  ELSE addInterfaceMapping(
         [ix EXCEPT ![Head(ifs)] = Append(ix[Head(ifs)], name)], name, Tail(ifs))


\* ------------------------------------------------------------------ lookups
\* this._registry.get(name)
RegistryGet(name) == IF name \in Names THEN registry[name] ELSE NoReg
\* this._interfaces.get(name) || []
InterfacesGet(name) == IF name \in Names THEN interfaces[name] ELSE <<>>
\* this._instances.get(name): undefined when the Map has no such key
InstancesGet(inst, name) == IF name \in DOMAIN inst THEN inst[name] ELSE Undefined
\* The entry of name: whether the Map has the key, and the value.
CacheEntry(inst, name) ==
  [has |-> name \in DOMAIN inst, val |-> InstancesGet(inst, name)]
\* this._instances.set(name, v)
InstancesSet(inst, name, v) ==
  [n \in (DOMAIN inst) \cup {name} |-> IF n = name THEN v ELSE inst[n]]

\* ------------------------------------------------------------------ callbacks
\* A callback created by the engine or handed in by the application; got
\* keeps what it has been invoked with, saw the Instance Cache's entry for
\* the callback's name as it was each time the callback was entered (kept
\* for the callbacks of single-name resolutions).
\*   "user"     the application's callback of request req
\*   "resolve"  the arrow function of resolve, src/index.js:223-231
\*   "item"     the callback async.map hands to its iteratee for element idx
\*   "call"     the function passed to resolve by call / callSync / callCtor
Cont(type, name, singleton, parent, map, idx, kind, fac, req) ==
  [type |-> type, name |-> name, singleton |-> singleton, parent |-> parent,
   map |-> map, idx |-> idx, kind |-> kind, fac |-> fac, req |-> req,
   got |-> <<>>, saw |-> <<>>]
UserK(req, name) == Cont("user", name, FALSE, 0, 0, 0, "", NoFn, req)
ResolveK(name, singleton, parent) ==
  Cont("resolve", name, singleton, parent, 0, 0, "", NoFn, 0)
ItemK(map, idx) == Cont("item", "", FALSE, 0, map, idx, "", NoFn, 0)
CallK(kind, fac, parent) == Cont("call", "", FALSE, parent, 0, 0, kind, fac, 0)

\* Pending synchronous work, in call-stack order.
ResolveItem(list, name, names, k, depth) ==
  [op |-> "resolve", list |-> list, name |-> name, names |-> names, k |-> k,
   depth |-> depth]
InjectItem(kind, fac, k, depth) ==
  [op |-> "inject", kind |-> kind, fac |-> fac, k |-> k, depth |-> depth]
ApplyItem(kind, fac, args, k, via) ==
  [op |-> "apply", kind |-> kind, fac |-> fac, args |-> args, k |-> k, via |-> via]
CbItem(k, err, val) == [op |-> "cb", k |-> k, err |-> err, val |-> val]

\* The result of one step: the new engine state, the invocations it makes
\* (in order), and whether it raised.
Go(s, push) == [s |-> s, push |-> push, thrown |-> ""]
Raise(s, what) == [s |-> s, push |-> <<>>, thrown |-> what]


\* ------------------------------------------------------------------ async.map
\* async.map(names, this.resolve.bind(this), callback), src/index.js:198-200
\* and 207-209: every element is handed to resolve, in order, each with its
\* own callback; the elements' resolutions run at the depth of the caller.
asyncMap(s, names, k, depth) ==
  LET m == Len(s.maps) + 1
      base == Len(s.conts)
      n == Len(names)
      rec == [names |-> names, results |-> [i \in 1..n |-> Undefined],
              completed |-> 0, done |-> (n = 0), parent |-> k, first |-> base + 1,
              errs |-> <<>>]
      s1 == [s EXCEPT !.maps = Append(@, rec),
                      !.conts = @ \o [i \in 1..n |-> ItemK(m, i)]]
  IN IF n = 0
     THEN Go(s1, <<CbItem(k, NoErr, Arr(<<>>))>>)
     ELSE Go(s1, [i \in 1..n |-> ResolveItem(FALSE, names[i], <<>>, base + i, depth)])

\* The same with the value pushed in order of arrival.
mapStoreByArrival(results, idx, v) ==
  LET free == {i \in 1..Len(results) : results[i] = Undefined}
  IN IF free = {} THEN results
     ELSE [results EXCEPT ![CHOOSE i \in free : \A j \in free : i <= j] = v]

\* results[index] = v
mapStore(results, idx, v) == [results EXCEPT ![idx] = v]

\* The same without the once-only wrapper.
alreadyCalledNever(m) == FALSE

\* The final callback is wrapped so that it runs once only.
alreadyCalled(m) == m.done

\* The callback async.map handed to the iteratee for element c.idx is
\* invoked with (err, v): the value is stored at the element's index; the
\* first error, or the last success, invokes the final callback, once.
\* (errs keeps the errors in their order of arrival.)
asyncMapItem(s, c, err, v) ==
  LET m == s.maps[c.map]
      res == mapStore(m.results, c.idx, v)
  IN IF err # NoErr
     THEN LET s1 == [s EXCEPT !.maps[c.map].results = res,
                              !.maps[c.map].errs = Append(@, [idx |-> c.idx, err |-> err])]
          IN IF alreadyCalled(m)
             THEN Go(s1, <<>>)
             ELSE Go([s1 EXCEPT !.maps[c.map].done = TRUE],
                     <<CbItem(m.parent, err, Undefined)>>)
     ELSE IF ~alreadyCalled(m) /\ m.completed + 1 = Len(m.names)
          THEN Go([s EXCEPT !.maps[c.map].results = res,
                            !.maps[c.map].completed = @ + 1,
                            !.maps[c.map].done = TRUE],
                  <<CbItem(m.parent, NoErr, Arr(res))>>)
          ELSE Go([s EXCEPT !.maps[c.map].results = res,
                            !.maps[c.map].completed = @ + 1], <<>>)

\* ------------------------------------------------------------------ resolve
\* if (r.config.singleton) { instance = this._instances.get(name);
\*                           if (instance) return callback(null, instance) }
cacheHit(r, inst, name) == r.singleton /\ Truthy(InstancesGet(inst, name))

\* The same with a copy of the instance handed out.
instanceFactoryCopy(r, k) == <<CbItem(k, NoErr, Val(r.inst.n + 1))>>

\* (callback) => { callback(null, instance); }, src/index.js:149-151
instanceFactory(r, k) == <<CbItem(k, NoErr, r.inst)>>

\* r.factory(callback): the asyncFactory stored by the registration call.
asyncFactory(r, k, depth) ==
  CASE r.kind = "direct"   -> <<ApplyItem("call", r.fac, <<>>, k, 0)>>
    [] r.kind = "async"    -> <<InjectItem("call", r.fac, k, depth)>>
    [] r.kind = "sync"     -> <<InjectItem("callSync", r.fac, k, depth)>>
    [] r.kind = "ctor"     -> <<InjectItem("callCtor", r.fac, k, depth)>>
    [] r.kind = "instance" -> instanceFactory(r, k)

\* The same with a single implementation resolved as a bare value.
resolveInterfaceBare(s, impl, k, depth) ==
  IF Len(impl) = 1
  THEN Go(s, <<ResolveItem(FALSE, impl[1], <<>>, k, depth)>>)
  ELSE asyncMap(s, impl, k, depth)

\* return async.map(interfaceImplementations, this.resolve.bind(this), callback)
resolveInterface(s, impl, k, depth) == asyncMap(s, impl, k, depth)

\* The same with the callback dropped.
unknownServiceDropped(s, name, k) == Go(s, <<>>)

\* The same with the callback invoked directly.
unknownServiceSync(s, name, k) ==
  Go(s, <<CbItem(k, UnknownErr(name), Undefined)>>)

\* return setImmediate(callback, new Error(`unknown service or interface ${name}`))
unknownService(s, name, k) ==
  Go([s EXCEPT !.immediates = Append(@, [k |-> k, err |-> UnknownErr(name)])], <<>>)

\* The same with the cycle reported to the callback.
circularReported(s, it) ==
  Go(s, <<CbItem(it.k, [type |-> "circular dependency", name |-> it.name],
                 Undefined)>>)

\* resolve -> r.factory -> call* -> resolve -> ... without end: the call
\* stack overflows and the RangeError leaves the engine.
stackExhausted(s, it) == Raise(s, "RangeError")

\* The same with the interface index consulted first.
notRegisteredOrInterface(r, impl) == r.kind = "none" \/ Len(impl) > 0

\* if (!r): impl, the name's implementation sequence, plays no part.
notRegistered(r, impl) == r.kind = "none"

\* Container.prototype.resolve(name, callback)
resolve(s, it) ==
  IF it.list THEN asyncMap(s, it.names, it.k, it.depth)
  ELSE
    LET r == RegistryGet(it.name)
        impl == InterfacesGet(it.name)
    IN IF notRegistered(r, impl)
       THEN IF Len(impl) > 0
            THEN resolveInterface(s, impl, it.k, it.depth)
            ELSE unknownService(s, it.name, it.k)
       ELSE IF cacheHit(r, s.instances, it.name)
       THEN Go([s EXCEPT !.resolved = Append(@,
                   [k |-> it.k, name |-> it.name, rk |-> 0,
                    val |-> InstancesGet(s.instances, it.name), cached |-> TRUE])],
               <<CbItem(it.k, NoErr, InstancesGet(s.instances, it.name))>>)
       ELSE IF it.depth >= MaxDepth
       THEN stackExhausted(s, it)
       ELSE LET kR == Len(s.conts) + 1
            IN Go([s EXCEPT !.conts = Append(@, ResolveK(it.name, r.singleton, it.k))],
                  asyncFactory(r, kR, it.depth + 1))

\* The same with the test of the singleton flag dropped.
cacheStoreAlways(c, inst, v) == InstancesSet(inst, c.name, v)

\* The same with the first value kept.
cacheStoreFirst(c, inst, v) ==
  IF c.singleton /\ c.name \notin DOMAIN inst
  THEN InstancesSet(inst, c.name, v) ELSE inst

\* The same with the entry dropped when a transient resolution completes.
cacheStoreEvicting(c, inst, v) ==
  IF c.singleton THEN InstancesSet(inst, c.name, v)
  ELSE [n \in (DOMAIN inst) \ {c.name} |-> inst[n]]

\* if (r.config.singleton) this._instances.set(name, instance)
cacheStore(c, inst, v) ==
  IF c.singleton THEN InstancesSet(inst, c.name, v) ELSE inst

\* The same with the test dropped.
factoryFailedNever(err) == FALSE

\* if (err) { return callback(err); }, src/index.js:224-226
factoryFailed(err) == err # NoErr

\* (err, instance) => { ... }, src/index.js:223-231
resolveCb(s, c, self, err, v) ==
  IF factoryFailed(err)
  THEN Go(s, <<CbItem(c.parent, err, Undefined)>>)
  ELSE Go([s EXCEPT !.instances = cacheStore(c, @, v),
                    !.resolved = Append(@, [k |-> c.parent, name |-> c.name,
                                            rk |-> self, val |-> v,
                                            cached |-> FALSE])],
          <<CbItem(c.parent, NoErr, v)>>)


\* ------------------------------------------------------------------ call
\* Container.prototype.call / callSync / callCtor up to their resolve:
\* only call drops the last parameter name.
inject(s, it) ==
  LET dependencies == getDependenciesNames(it.fac, it.kind = "call")
      kC == Len(s.conts) + 1
  IN Go([s EXCEPT !.conts = Append(@, CallK(it.kind, it.fac, it.k))],
        <<ResolveItem(TRUE, "", dependencies, kC, it.depth)>>)

\* The same with the test dropped.
depsFailedNever(err) == FALSE

\* if (err) { return callback(err); }
depsFailed(err) == err # NoErr

\* function (err, services) { ... } of call / callSync / callCtor:
\* the function is applied to the services (call adds the callback).
callCb(s, c, self, err, v) ==
  IF depsFailed(err)
  THEN Go(s, <<CbItem(c.parent, err, Undefined)>>)
  ELSE Go(s, <<ApplyItem(c.kind, c.fac, v.items, c.parent, self)>>)

\* The value a caller-supplied function produces: `new Factory()` is always
\* an object.
produced(s, it) ==
  IF it.fac.falsy /\ it.kind # "callCtor" THEN Falsy ELSE Val(s.nextVal)

\* factory.apply(null, services [.concat([callback])]) and new Factory():
\* the caller-supplied function runs.  A function that raises is not
\* guarded by any try / catch: the exception unwinds the engine.
apply(s, it) ==
  LET v == produced(s, it)
      entry == [fac |-> it.fac, kind |-> it.kind, args |-> it.args, k |-> it.k,
                via |-> it.via, cb |-> (it.kind = "call"),
                val |-> IF it.fac.beh = "ok" THEN v ELSE Undefined]
      s1 == [s EXCEPT !.calls = Append(@, entry)]
      s2 == [s1 EXCEPT !.nextVal = IF v = Falsy THEN @ ELSE @ + 1]
  IN CASE it.fac.beh = "throw" -> Raise(s1, "Error")
       [] it.fac.beh = "ok" ->
            Go(s2, <<CbItem(it.k, NoErr, v)>>)
       [] it.fac.beh = "fail" -> Go(s1, <<CbItem(it.k, FactoryErr, Undefined)>>)
       [] it.fac.beh = "defer" -> Go([s1 EXCEPT !.pending = @ \cup {it.k}], <<>>)

\* The application's callback records what it is invoked with.
userCb(s, c, err, v) ==
  Go([s EXCEPT !.delivered[c.req] = Append(@, [err |-> err, val |-> v])], <<>>)

\* ------------------------------------------------------------------ engine
\* One invocation.
Step(s, it) ==
  CASE it.op = "resolve" -> resolve(s, it)
    [] it.op = "inject"  -> inject(s, it)
    [] it.op = "apply"   -> apply(s, it)
    [] it.op = "cb" ->
         LET c == s.conts[it.k]
             s1 == [s EXCEPT !.conts[it.k].got =
                               Append(@, [err |-> it.err, val |-> it.val]),
                             !.conts[it.k].saw =
                               IF c.type \in {"user", "resolve"}
                               THEN Append(@, CacheEntry(s.instances, c.name))
                               ELSE @]
         IN CASE c.type = "user"    -> userCb(s1, c, it.err, it.val)
              [] c.type = "resolve" -> resolveCb(s1, c, it.k, it.err, it.val)
              [] c.type = "item"    -> asyncMapItem(s1, c, it.err, it.val)
              [] c.type = "call"    -> callCb(s1, c, it.k, it.err, it.val)

\* Run the pending invocations to completion, innermost first; an
\* exception abandons everything still on the stack.
RECURSIVE Run(_, _)
Run(s, agenda) ==
  IF Len(agenda) = 0 THEN s
  ELSE LET r == Step(s, Head(agenda))
       IN IF r.thrown # ""
          THEN [r.s EXCEPT !.thrown = r.thrown]
          ELSE Run(r.s, r.push \o Tail(agenda))

\* The engine's part of the state, and its write-back.
Eng ==
  [instances |-> instances, conts |-> conts, maps |-> maps, pending |-> pending,
   immediates |-> immediates, delivered |-> delivered, calls |-> calls,
   resolved |-> resolved, nextVal |-> nextVal, thrown |-> ""]

Commit(s, at, req) ==
  /\ instances' = s.instances
  /\ conts' = s.conts
  /\ maps' = s.maps
  /\ pending' = s.pending
  /\ immediates' = s.immediates
  /\ delivered' = s.delivered
  /\ calls' = s.calls
  /\ resolved' = s.resolved
  /\ nextVal' = s.nextVal
  /\ thrown' = IF s.thrown # ""
               THEN Append(thrown, [at |-> at, req |-> req, what |-> s.thrown])
               ELSE thrown

\* ------------------------------------------------------------------ registration
Record(kind, fac, inst, config) ==
  [kind |-> kind, fac |-> fac, inst |-> inst, singleton |-> config.singleton]

\* this._registry.set(name, {factory: asyncFactory, config});
\* this._addInterfaceMapping(name, config.interfaces)
Store(name, rec, config) ==
  /\ Len(regs) + Len(rejected) < MaxRegs
  /\ registry' = [registry EXCEPT ![name] = rec]
  /\ interfaces' = addInterfaceMapping(interfaces, name, config.interfaces)
  /\ regs' = Append(regs, [name |-> name, rec |-> rec, config |-> config,
                            before |-> registry[name],
                            cached |-> name \in DOMAIN instances,
                            reqs |-> Len(reqs)])
  /\ UNCHANGED <<instances, conts, maps, pending, immediates, reqs, delivered,
                 calls, resolved, thrown, nextVal, rejected>>

\* throw new Error(what): the call fails at the call site, before anything
\* is stored.
Reject(c, what) ==
  /\ Len(regs) + Len(rejected) < MaxRegs
  /\ rejected' = Append(rejected, [call |-> c, what |-> what])
  /\ UNCHANGED <<registry, instances, interfaces, conts, maps, pending,
                 immediates, reqs, delivered, calls, resolved, thrown, nextVal,
                 regs>>

\* !name || typeof name !== 'string'
invalidName(c) == c.name = "" \/ c.nameType # "string"

\* typeof factory !== 'function'
notFunction(c) == c.facType # "function"

\* The same with the test dropped.
needsCallbackNever(factory) == FALSE

\* factory.length === 0
needsCallback(factory) == Len(factory.params) = 0

\* typeof instance === 'undefined'
noInstance(c) == c.inst = Undefined

\* A factory taking only the callback is stored as it is, any other is
\* wrapped in this.call.
registerKind(factory) == IF Len(factory.params) = 1 THEN "direct" ELSE "async"

\* container.register(name, factory, options)
Register(c) ==
  IF invalidName(c) THEN Reject(c, "name is required")
  ELSE IF notFunction(c) THEN Reject(c, "the factory function is required")
  ELSE IF needsCallback(c.fac)
  THEN Reject(c, "the factory function needs at least 1 argument (callback)")
  ELSE Store(c.name, Record(registerKind(c.fac), c.fac, Undefined, c.config),
             c.config)

\* container.registerSync(name, factory, options)
RegisterSync(c) ==
  IF invalidName(c) THEN Reject(c, "name is required")
  ELSE IF notFunction(c) THEN Reject(c, "the factory function is required")
  ELSE Store(c.name, Record("sync", c.fac, Undefined, c.config), c.config)

\* container.registerCtor(name, factory, options)
RegisterCtor(c) ==
  IF invalidName(c) THEN Reject(c, "name is required")
  ELSE IF notFunction(c) THEN Reject(c, "the factory function is required")
  ELSE Store(c.name, Record("ctor", c.fac, Undefined, c.config), c.config)

\* container.registerInstance(name, instance, options)
RegisterInstance(c) ==
  IF invalidName(c) THEN Reject(c, "name is required")
  ELSE IF noInstance(c) THEN Reject(c, "instance is required")
  ELSE Store(c.name, Record("instance", NoFn, c.inst, c.config), c.config)

\* ------------------------------------------------------------------ requests
\* Lists the application resolves at once.
Lists == { <<>>, <<"a", "b">>, <<"a", "a">> }

\* Functions the application hands to call.
CallFns == { AsyncDeps, AsyncReq }

\* The application calls resolve or call with a callback of its own; the call
\* runs to completion before the application goes on.
Issue(op, list, name, names, fac) ==
  /\ Len(reqs) < MaxReqs
  /\ LET id == Len(reqs) + 1
         k == Len(conts) + 1
         first == IF op = "call" THEN InjectItem("call", fac, k, 0)
                                 ELSE ResolveItem(list, name, names, k, 0)
         s0 == [Eng EXCEPT !.conts = Append(@, UserK(id, name)),
                           !.delivered = Append(@, <<>>)]
         s1 == Run(s0, <<first>>)
     IN /\ reqs' = Append(reqs, [op |-> op, list |-> list, name |-> name,
                                 names |-> names, fac |-> fac, k |-> k,
                                 rec |-> RegistryGet(name),
                                 registry |-> registry,
                                 interfaces |-> interfaces,
                                 impl |-> InterfacesGet(name),
                                 cached |-> name \in DOMAIN instances,
                                 cache |-> InstancesGet(instances, name),
                                 regs |-> Len(regs),
                                 settled |-> {p \in 1..Len(reqs) :
                                                delivered[p] # <<>>},
                                 sync |-> Len(s1.delivered[id]),
                                 threw |-> s1.thrown # ""])
        /\ Commit(s1, op, id)
  /\ UNCHANGED <<registry, interfaces, regs, rejected>>

\* container.resolve(name, callback)
Resolve(name) ==
  Issue("resolve", FALSE, name, <<>>, NoFn)

\* container.resolve(names, callback)
ResolveList(names) ==
  Issue("resolve", TRUE, "", names, NoFn)

\* container.call(f, callback)
Call(f) ==
  Issue("call", FALSE, "", <<>>, f)

\* ------------------------------------------------------------------ environment
\* A deferred factory invokes the callback it kept: with a fresh object or
\* with an error.
Outcomes == {"object", "error"}

Complete(k, outcome) ==
  /\ k \in pending
  /\ LET s0 == [Eng EXCEPT !.pending = @ \ {k},
                           !.nextVal = IF outcome = "object" THEN @ + 1 ELSE @]
         item == CASE outcome = "object" -> CbItem(k, NoErr, Val(nextVal))
                   [] outcome = "error"  -> CbItem(k, FactoryErr, Undefined)
     IN Commit(Run(s0, <<item>>), "complete", 0)
  /\ UNCHANGED <<registry, interfaces, regs, rejected, reqs>>

\* The event loop runs the oldest setImmediate callback.
Immediate ==
  /\ Len(immediates) > 0
  /\ LET h == Head(immediates)
         s0 == [Eng EXCEPT !.immediates = Tail(@)]
     IN Commit(Run(s0, <<CbItem(h.k, h.err, Undefined)>>), "immediate", 0)
  /\ UNCHANGED <<registry, interfaces, regs, rejected, reqs>>

\* ------------------------------------------------------------------ specification
\* The arguments of a registration call: the name with its typeof, the
\* factory with its typeof, the instance, and the options.
Args(op, nameType, name, facType, fac, inst, singleton, ifs) ==
  [op |-> op, nameType |-> nameType, name |-> name, facType |-> facType,
   fac |-> fac, inst |-> inst,
   config |-> [singleton |-> singleton, interfaces |-> ifs]]

\* A registration call with a string for the name and a function for the
\* factory (registerInstance takes no factory).
Reg(op, name, fac, inst, singleton, ifs) ==
  Args(op, "string", name, IF op = "registerInstance" THEN "undefined" ELSE "function",
       fac, inst, singleton, ifs)

\* Setup functions handed to the constructor (none: the empty sequence).
Guywires ==
  { <<>>,
    << Reg("registerInstance", "a", NoFn, Val(100), TRUE, <<>>),
       Reg("registerSync", "b", SyncLeaf, Undefined, TRUE, <<>>) >>,
    << Reg("register", "a", DeferLeaf, Undefined, TRUE, <<"i">>),
       Reg("registerSync", "b", SyncLeaf, Undefined, FALSE, <<"i">>) >>,
    << Reg("registerSync", "a", SyncFalsy, Undefined, TRUE, <<>>),
       Reg("registerCtor", "b", SyncThrows, Undefined, TRUE, <<"i">>) >>,
    << Reg("registerSync", "a", SyncLeaf, Undefined, TRUE, <<>>),
       Reg("registerSync", "b", SyncDepA, Undefined, TRUE, <<>>) >> }

\* Registration calls the application makes after construction.
RegCalls ==
  { Reg("register", "i", AsyncDeps, Undefined, TRUE, <<>>),
    Reg("register", "a", AsyncReqOnly, Undefined, TRUE, <<>>),
    Reg("register", "b", DeferLeaf, Undefined, TRUE, <<>>),
    Reg("registerSync", "i", SyncDeps, Undefined, FALSE, <<>>),
    Reg("registerSync", "a", SyncLeaf, Undefined, TRUE, <<>>),
    Reg("registerSync", "a", SyncFalsy, Undefined, FALSE, <<"i">>),
    Reg("registerSync", "b", SyncThrows, Undefined, TRUE, <<>>),
    Reg("registerSync", "a", SyncDeps, Undefined, TRUE, <<>>),
    Reg("registerCtor", "i", SyncReq, Undefined, TRUE, <<>>),
    Reg("registerCtor", "a", SyncLeaf, Undefined, FALSE, <<>>),
    Reg("registerInstance", "a", NoFn, Val(200), TRUE, <<>>),
    Reg("registerInstance", "b", NoFn, Falsy, FALSE, <<"i">>),
    Reg("registerCtor", "b", SyncLeaf, Undefined, TRUE, <<"i", "a">>) }

\* Registration calls with an argument the entry point refuses: an empty or
\* non-string name, a factory that is missing or no function, a factory
\* without parameters handed to register, a missing instance.
BadCalls ==
  { Args("register", "string", "", "function", DeferLeaf, Undefined, TRUE, <<"i">>),
    Args("register", "string", "a", "object", NoFn, Undefined, TRUE, <<"i">>),
    Args("register", "string", "a", "function", SyncLeaf, Undefined, TRUE, <<"i">>),
    Args("registerSync", "number", "", "function", SyncLeaf, Undefined, TRUE, <<>>),
    Args("registerSync", "string", "b", "undefined", NoFn, Undefined, FALSE, <<"i">>),
    Args("registerCtor", "undefined", "", "function", SyncLeaf, Undefined, TRUE, <<>>),
    Args("registerCtor", "string", "a", "string", NoFn, Undefined, TRUE, <<"i">>),
    Args("registerInstance", "string", "", "undefined", NoFn, Val(200), TRUE, <<"i">>),
    Args("registerInstance", "string", "a", "undefined", NoFn, Undefined, TRUE, <<"i">>) }

regRecord(c) ==
  CASE c.op = "register" -> Record(registerKind(c.fac), c.fac, Undefined, c.config)
    [] c.op = "registerSync" -> Record("sync", c.fac, Undefined, c.config)
    [] c.op = "registerCtor" -> Record("ctor", c.fac, Undefined, c.config)
    [] c.op = "registerInstance" -> Record("instance", NoFn, c.inst, c.config)

\* The Registry and the interface index after the setup function's calls.
RECURSIVE guywired(_, _)
guywired(st, g) ==
  IF Len(g) = 0 THEN st
  ELSE LET c == Head(g)
       IN guywired([reg |-> [st.reg EXCEPT ![c.name] = regRecord(c)],
                    ifs |-> addInterfaceMapping(st.ifs, c.name, c.config.interfaces)],
                   Tail(g))

\* new Container(guywire): three empty maps, then guywire(this).
Init ==
  /\ \E g \in Guywires :
       LET st == guywired([reg |-> [n \in Names |-> NoReg],
                           ifs |-> [n \in Names |-> <<>>]], g)
       IN registry = st.reg /\ interfaces = st.ifs
  /\ instances = <<>>
  /\ conts = <<>>
  /\ maps = <<>>
  /\ pending = {}
  /\ immediates = <<>>
  /\ reqs = <<>>
  /\ delivered = <<>>
  /\ calls = <<>>
  /\ resolved = <<>>
  /\ thrown = <<>>
  /\ nextVal = 1
  /\ regs = <<>>
  /\ rejected = <<>>

Next ==
  \/ \E c \in RegCalls \cup BadCalls : c.op = "register" /\ Register(c)
  \/ \E c \in RegCalls \cup BadCalls : c.op = "registerSync" /\ RegisterSync(c)
  \/ \E c \in RegCalls \cup BadCalls : c.op = "registerCtor" /\ RegisterCtor(c)
  \/ \E c \in RegCalls \cup BadCalls : c.op = "registerInstance" /\ RegisterInstance(c)
  \/ \E n \in Names : Resolve(n)
  \/ \E l \in Lists : ResolveList(l)
  \/ \E f \in CallFns : Call(f)
  \/ \E k \in pending, o \in Outcomes : Complete(k, o)
  \/ Immediate

Spec == Init /\ [][Next]_vars

\* The steps of Immediate, told by the setImmediate queue: its oldest
\* callback leaves it (no other step shortens the queue).
ImmediateRuns == Len(immediates) > 0 /\ immediates' = Tail(immediates)

\* The steps of Complete, told by the callbacks deferred factories keep:
\* one of them is used (no other step takes a callback away).
CompletionSignalled == \E k \in pending : pending' = pending \ {k}

\* The event loop runs every setImmediate callback, and every deferred
\* factory signals its completion.
LiveSpec ==
  /\ Spec
  /\ WF_immediates(ImmediateRuns)
  /\ WF_pending(CompletionSignalled)

\* ------------------------------------------------------------------ vocabulary
\* Requests, by what the application asked for.
Requests == 1..Len(reqs)
IsResolveOne(q) == reqs[q].op = "resolve" /\ ~reqs[q].list
IsResolveList(q) == reqs[q].op = "resolve" /\ reqs[q].list
IsCall(q) == reqs[q].op = "call"
\* The name was a registered service when q was issued.
IsService(q) == IsResolveOne(q) /\ reqs[q].rec.kind # "none"
\* The name was no service but an interface name when q was issued.
IsInterface(q) ==
  IsResolveOne(q) /\ reqs[q].rec.kind = "none" /\ Len(reqs[q].impl) > 0
\* The name was neither when q was issued.
IsUnknown(q) ==
  IsResolveOne(q) /\ reqs[q].rec.kind = "none" /\ Len(reqs[q].impl) = 0
Ok(d) == d.err = NoErr
Success(v) == [err |-> NoErr, val |-> v]
Failure(e) == [err |-> e, val |-> Undefined]
\* The invocations of r.factory made for request q's own (single-name)
\* resolution: one callback of src/index.js:223 each.
FactoryRuns(q) ==
  {j \in 1..Len(conts) : conts[j].type = "resolve" /\ conts[j].parent = reqs[q].k}
\* The invocations of the caller-supplied function on behalf of q's own
\* resolution.
FunctionRuns(q) ==
  {j \in 1..Len(calls) : calls[j].k \in FactoryRuns(q)}
\* The async.map invocations whose final callback is k.
MapsOf(k) == {m \in 1..Len(maps) : maps[m].parent = k}
\* The callback async.map handed out for element i of map m.
ItemOf(m, i) == maps[m].first + i - 1
\* v is what the single-name resolution with callback k delivered for name.
DeliveredFor(k, name, v) ==
  \E j \in 1..Len(resolved) :
    resolved[j].k = k /\ resolved[j].name = name /\ resolved[j].val = v
\* Position in the log resolved of the resolution with callback k (0: none).
ResolvedAt(k) ==
  IF \E j \in 1..Len(resolved) : resolved[j].k = k
  THEN CHOOSE j \in 1..Len(resolved) : resolved[j].k = k
  ELSE 0

\* ------------------------------------------------------------------ C1
\* C1: whenever the Instance Cache already holds a value for a name
\* registered singleton, resolve(name) signals success with that cached
\* value at once and invokes no factory: a resolution that follows a
\* successful one delivers the identical value without a second factory
\* invocation, whatever the value is.
C1_CachedSingletonIsReused ==
  \A q \in Requests :
    (IsService(q) /\ reqs[q].rec.singleton /\ reqs[q].cached)
    => /\ delivered[q] = << Success(reqs[q].cache) >>
       /\ FactoryRuns(q) = {}

\* ------------------------------------------------------------------ C2
\* Every resolution of a name registered transient invokes r.factory once,
\* the caller's function at most once (once if it succeeds), and delivers
\* what that invocation produced, never a cached value.
C2_TransientInvokesFactory ==
  \A q \in Requests :
    (IsService(q) /\ ~reqs[q].rec.singleton)
    => /\ Cardinality(FactoryRuns(q)) = 1
       /\ Cardinality(FunctionRuns(q)) <= 1
       /\ Len(delivered[q]) <= 1
       /\ \A i \in 1..Len(delivered[q]) :
            Ok(delivered[q][i])
            => /\ \E j \in 1..Len(resolved) :
                    /\ resolved[j].k = reqs[q].k
                    /\ resolved[j].rk \in FactoryRuns(q)
                    /\ resolved[j].val = delivered[q][i].val
                    /\ ~resolved[j].cached
               /\ reqs[q].rec.kind # "instance"
                  => Cardinality(FunctionRuns(q)) = 1
               /\ reqs[q].rec.kind \in {"sync", "ctor"}
                  => \A j \in FunctionRuns(q) : calls[j].val = delivered[q][i].val

\* The entries the step adds to the log resolved.
NewlyResolved == (Len(resolved) + 1)..Len(resolved')

\* A step changes the cache entry of a name only by completing a
\* resolution whose record is marked singleton.
C2_OnlySingletonsAreCached ==
  \A n \in Names :
    InstancesGet(instances', n) # InstancesGet(instances, n)
    => \E j \in NewlyResolved :
         /\ resolved'[j].name = n
         /\ resolved'[j].rk \in 1..Len(conts')
         /\ conts'[resolved'[j].rk].singleton
         /\ resolved'[j].val = instances'[n]

\* C2: for a name registered with singleton: false, every resolve(name)
\* invokes the factory exactly once and delivers the value of its own
\* invocation, and no resolution of a transient registration writes the
\* Instance Cache.
C2_Transient == []C2_TransientInvokesFactory /\ [][C2_OnlySingletonsAreCached]_vars

\* Two resolutions of one transient name delivered two different values.
C2_Witness ==
  \E q1, q2 \in Requests :
    /\ q1 < q2
    /\ IsService(q1) /\ IsService(q2)
    /\ reqs[q1].name = reqs[q2].name
    /\ ~reqs[q1].rec.singleton /\ ~reqs[q2].rec.singleton
    /\ Len(delivered[q1]) = 1 /\ Len(delivered[q2]) = 1
    /\ Ok(delivered[q1][1]) /\ Ok(delivered[q2][1])
    /\ delivered[q1][1].val # delivered[q2][1].val


\* ------------------------------------------------------------------ C3
\* Every name of the list had a record in the registry when resolve was
\* called with it.
ListOfRegistered(q) ==
  \A p \in 1..Len(reqs[q].names) :
    reqs[q].registry[reqs[q].names[p]].kind # "none"

\* C3: a successful resolve([n1..nk]) of registered names delivers a sequence
\* of length k whose i-th element is the value the resolution of ni
\* delivered, in whatever order the members completed.
C3_ListIsPositional ==
  \A q \in Requests :
    IsResolveList(q)
    => /\ Cardinality(MapsOf(reqs[q].k)) = 1
       /\ \A i \in 1..Len(delivered[q]) :
            Ok(delivered[q][i]) /\ ListOfRegistered(q)
            => LET v == delivered[q][i].val
                   names == reqs[q].names
               IN /\ v.arr
                  /\ Len(v.items) = Len(names)
                  /\ \A m \in MapsOf(reqs[q].k) : \A p \in 1..Len(names) :
                       DeliveredFor(ItemOf(m, p), names[p], v.items[p])

\* A list of two was delivered whose second member completed first, with
\* two different values.
C3_Witness ==
  \E q \in Requests :
    /\ IsResolveList(q)
    /\ ListOfRegistered(q)
    /\ Len(reqs[q].names) = 2
    /\ Len(delivered[q]) = 1
    /\ Ok(delivered[q][1])
    /\ delivered[q][1].val.items[1] # delivered[q][1].val.items[2]
    /\ \E m \in MapsOf(reqs[q].k) :
         /\ ResolvedAt(ItemOf(m, 1)) > 0
         /\ ResolvedAt(ItemOf(m, 2)) > 0
         /\ ResolvedAt(ItemOf(m, 2)) < ResolvedAt(ItemOf(m, 1))

\* ------------------------------------------------------------------ C4
\* A request for an unknown name has invoked no factory, has thrown
\* nothing, had not been answered when resolve returned, and is either
\* still waiting in the setImmediate queue or has been answered once, with
\* the error naming it.
C4_UnknownIsDeferred ==
  \A q \in Requests :
    IsUnknown(q)
    => LET queued == \E j \in 1..Len(immediates) : immediates[j].k = reqs[q].k
       IN /\ reqs[q].sync = 0
          /\ ~reqs[q].threw
          /\ FactoryRuns(q) = {}
          /\ MapsOf(reqs[q].k) = {}
          /\ \/ queued /\ delivered[q] = <<>>
             \/ ~queued /\ delivered[q] = << Failure(UnknownErr(reqs[q].name)) >>

\* The container's own state and the factories' invocations are untouched.
C4_Untouched ==
  /\ UNCHANGED <<registry, instances, interfaces, pending, maps, calls, resolved>>

\* The step that issues a request for an unknown name only queues the
\* error; the step that delivers it only invokes the callback.
C4_UnknownStep ==
  /\ (/\ Len(reqs') = Len(reqs) + 1
      /\ LET r == reqs'[Len(reqs')]
         IN r.op = "resolve" /\ ~r.list /\ r.rec.kind = "none" /\ Len(r.impl) = 0)
     => /\ C4_Untouched
        /\ immediates' = Append(immediates,
             [k |-> reqs'[Len(reqs')].k,
              err |-> UnknownErr(reqs'[Len(reqs')].name)])
  /\ (/\ Len(immediates) > 0
      /\ immediates' = Tail(immediates)
      /\ conts[Head(immediates).k].type = "user")
     => C4_Untouched

\* C4: resolve of a name that is neither a service nor an interface
\* delivers the 'unknown service or interface' error through the callback,
\* never before resolve has returned, invoking no factory and changing no
\* container state.
C4_Unknown == []C4_UnknownIsDeferred /\ [][C4_UnknownStep]_vars

\* An unknown name has been answered, after resolve returned.
C4_Witness ==
  \E q \in Requests :
    /\ IsUnknown(q)
    /\ reqs[q].sync = 0
    /\ delivered[q] = << Failure(UnknownErr(reqs[q].name)) >>

C6_InterfaceIsSequence ==
  \A q \in Requests :
    IsInterface(q)
    => /\ Cardinality(MapsOf(reqs[q].k)) = 1
       /\ \A m \in MapsOf(reqs[q].k) : maps[m].names = reqs[q].impl
       /\ \A i \in 1..Len(delivered[q]) :
            Ok(delivered[q][i])
            => LET v == delivered[q][i].val
                   impl == reqs[q].impl
               IN /\ v.arr
                  /\ Len(v.items) = Len(impl)
                  /\ \A m \in MapsOf(reqs[q].k) : \A p \in 1..Len(impl) :
                       DeliveredFor(ItemOf(m, p), impl[p], v.items[p])

\* An interface with a single implementation was resolved.
C6_Witness ==
  \E q \in Requests :
    /\ IsInterface(q)
    /\ Len(reqs[q].impl) = 1
    /\ Len(delivered[q]) = 1
    /\ Ok(delivered[q][1])
    /\ delivered[q][1].val.arr
    /\ Len(delivered[q][1].val.items) = 1


\* ------------------------------------------------------------------ C7
\* C7: a function registered with registerSync or registerCtor that raises
\* makes the resolution fail through the callback it was to answer, and
\* no exception of a factory leaves resolve / call.
C7_RaiseBecomesFailure ==
  /\ \A j \in 1..Len(thrown) : thrown[j].what # "Error"
  /\ \A j \in 1..Len(calls) :
       calls[j].fac.beh = "throw"
       => /\ Len(conts[calls[j].k].got) = 1
          /\ ~Ok(conts[calls[j].k].got[1])

\* ------------------------------------------------------------------ C8
\* The registration calls made after construction that re-registered a name
\* while the Instance Cache held an entry for it.
ReRegistered(name, upto) ==
  {j \in 1..Len(regs) :
     /\ j <= upto
     /\ regs[j].name = name
     /\ regs[j].before.kind # "none"
     /\ regs[j].cached}

\* C8: re-registering a name replaces its record (resolutions issued later
\* that reach the factory use the new factory and the new config) and
\* leaves the Instance Cache alone: with a value cached and the new
\* registration singleton too, resolve keeps delivering the cached value
\* and the new factory is not invoked.
C8_ReRegistrationKeepsCache ==
  /\ \A j \in 1..Len(regs) :
       (\A l \in 1..Len(regs) : l > j => regs[l].name # regs[j].name)
       => registry[regs[j].name] = regs[j].rec
  /\ \A q \in Requests :
       (IsService(q) /\ ReRegistered(reqs[q].name, reqs[q].regs) # {})
       => /\ \A j \in FactoryRuns(q) : conts[j].singleton = reqs[q].rec.singleton
          /\ \A j \in FunctionRuns(q) : calls[j].fac = reqs[q].rec.fac
          /\ reqs[q].rec.singleton
             => /\ delivered[q] = << Success(reqs[q].cache) >>
                /\ FactoryRuns(q) = {}

\* ------------------------------------------------------------------ C9
\* The invocations of the caller's function made by the callback j of
\* call / callSync / callCtor.
RunsVia(j) == {r \in 1..Len(calls) : calls[r].via = j}

\* C9: call (and the wrappers of register, registerSync, registerCtor)
\* resolves the function's dependencies; if all resolve, the function is
\* invoked exactly once with those values in order (call adds the
\* callback); if one fails, the callback receives that error and the
\* function is never invoked.
C9_CallShortCircuits ==
  \A j \in 1..Len(conts) :
    conts[j].type = "call"
    => LET c == conts[j]
       IN /\ Cardinality(MapsOf(j)) = 1
          /\ Cardinality(RunsVia(j)) <= 1
          /\ \A m \in MapsOf(j) :
               /\ maps[m].errs # <<>>
                  => /\ RunsVia(j) = {}
                     /\ conts[c.parent].got = << Failure(maps[m].errs[1].err) >>
               /\ \A r \in RunsVia(j) :
                    /\ maps[m].done
                    /\ maps[m].errs = <<>>
                    /\ calls[r].fac = c.fac
                    /\ calls[r].args = maps[m].results
                    /\ calls[r].cb = (c.kind = "call")
                    /\ calls[r].k = c.parent
          /\ (c.got # <<>> /\ Ok(c.got[1])) => Cardinality(RunsVia(j)) = 1

\* call was issued, a dependency failed, the callback got its error and
\* the function was not invoked.
C9_Witness ==
  \E q \in Requests : \E j \in 1..Len(conts) : \E m \in MapsOf(j) :
    /\ IsCall(q)
    /\ conts[j].type = "call"
    /\ conts[j].parent = reqs[q].k
    /\ Len(maps[m].names) = 2
    /\ maps[m].errs # <<>>
    /\ delivered[q] = << Failure(maps[m].errs[1].err) >>
    /\ RunsVia(j) = {}

\* ------------------------------------------------------------------ C10
\* The names a function declares: its '@require' list if it has one, else
\* its parameter names (for register and call, without the callback).
Declared(fac, kind) ==
  IF fac.hasReq THEN fac.req
  ELSE IF kind = "call"
       THEN [i \in 1..(Len(fac.params) - 1) |-> fac.params[i]]
       ELSE fac.params

IsPrefix(s, w) == Len(s) <= Len(w) /\ \A i \in 1..Len(s) : s[i] = w[i]

\* v is what the resolution with callback k delivered for name: a service's
\* value, or the sequence of the values of an interface's implementations.
ValueFor(k, name, v) ==
  \/ DeliveredFor(k, name, v)
  \/ \E m \in MapsOf(k) :
       /\ maps[m].done
       /\ IsPrefix(maps[m].names, InterfacesGet(name))
       /\ v = Arr(maps[m].results)
       /\ \A p \in 1..Len(maps[m].names) :
            DeliveredFor(ItemOf(m, p), maps[m].names[p], maps[m].results[p])

\* Invocation r received the values of the names its function declares.
ReceivedDeclared(r) ==
  LET e == calls[r]
      names == Declared(e.fac, e.kind)
  IN /\ Len(e.args) = Len(names)
     /\ e.via # 0
     /\ \A m \in MapsOf(e.via) : \A p \in 1..Len(names) :
          ValueFor(ItemOf(m, p), names[p], e.args[p])

IsInstance(q) == IsService(q) /\ reqs[q].rec.kind = "instance"

\* No dependency was resolved and no caller-supplied function was invoked
\* for request q's own resolution.
NothingInjected(q) ==
  /\ FunctionRuns(q) = {}
  /\ \A j \in 1..Len(conts) :
       conts[j].type = "call" => conts[j].parent \notin FactoryRuns(q)
  /\ MapsOf(reqs[q].k) = {}

\* C11 as stated: every resolve of a name registered with
\* registerInstance(name, v, options) delivers exactly v, whatever the
\* singleton option, on every resolution, without resolving any dependency.
C11_InstanceDelivered ==
  \A q \in Requests :
    IsInstance(q)
    => /\ delivered[q] = << Success(reqs[q].rec.inst) >>
       /\ NothingInjected(q)

\* C11, amended: the same, except that under a singleton registration a
\* value the Instance Cache already held for the name when resolve was
\* called (left by a resolution made under an earlier registration of the
\* name) may be delivered instead of v.
C11_InstanceDeliveredUnlessStaleCache ==
  \A q \in Requests :
    IsInstance(q)
    => /\ \/ delivered[q] = << Success(reqs[q].rec.inst) >>
          \/ /\ reqs[q].rec.singleton
             /\ reqs[q].cached
             /\ delivered[q] = << Success(reqs[q].cache) >>
       /\ reqs[q].sync = 1
       /\ NothingInjected(q)

\* The same registered instance was resolved twice, the second time with
\* the Instance Cache holding an entry for it, and delivered both times.
C11_Witness ==
  /\ Len(reqs) = 2
  /\ IsInstance(1) /\ IsInstance(2)
  /\ reqs[1].name = reqs[2].name
  /\ reqs[1].rec = reqs[2].rec
  /\ reqs[2].cached
  /\ delivered[1] = << Success(reqs[1].rec.inst) >>
  /\ delivered[2] = delivered[1]

\* ------------------------------------------------------------------ C12
\* The argument the entry point refuses in call c, by the error's message.
Refused(c, what) ==
  CASE what = "name is required" -> c.name = "" \/ c.nameType # "string"
    [] what = "the factory function is required" ->
         c.op # "registerInstance" /\ c.facType # "function"
    [] what = "the factory function needs at least 1 argument (callback)" ->
         c.op = "register" /\ Len(c.fac.params) = 0
    [] what = "instance is required" ->
         c.op = "registerInstance" /\ c.inst = Undefined
    [] OTHER -> FALSE

\* What a registration call must have for the entry point to store it.
Acceptable(c) ==
  /\ c.name # "" /\ c.nameType = "string"
  /\ c.op # "registerInstance" => c.facType = "function"
  /\ c.op = "register" => Len(c.fac.params) > 0
  /\ c.op = "registerInstance" => c.inst # Undefined

\* Every call that failed had an argument of the refused kind, and nothing
\* stored in the Registry came from such a call.
C12_OnlyInvalidRejected ==
  /\ \A i \in 1..Len(rejected) :
       /\ Refused(rejected[i].call, rejected[i].what)
       /\ ~Acceptable(rejected[i].call)
  /\ \A i \in 1..Len(regs) :
       /\ regs[i].name \in Names
       /\ regs[i].rec.kind \in {"direct", "async"} => Len(regs[i].rec.fac.params) > 0
       /\ regs[i].rec.kind = "instance" => regs[i].rec.inst # Undefined
       /\ regs[i].rec.kind # "instance" => regs[i].rec.fac # NoFn

\* A registration call made with a refused argument fails at the call
\* site, and a step in which a registration call fails leaves the Registry,
\* the interface index and the Instance Cache as they were.
C12_RejectedStep ==
  /\ \A c \in BadCalls :
       (\/ c.op = "register" /\ Register(c)
        \/ c.op = "registerSync" /\ RegisterSync(c)
        \/ c.op = "registerCtor" /\ RegisterCtor(c)
        \/ c.op = "registerInstance" /\ RegisterInstance(c))
       => /\ Len(rejected') = Len(rejected) + 1
          /\ rejected'[Len(rejected')].call = c
  /\ rejected' # rejected
     => /\ registry' = registry
        /\ interfaces' = interfaces
        /\ instances' = instances
        /\ regs' = regs
        /\ conts' = conts /\ pending' = pending /\ immediates' = immediates

\* C12: a registration call with an empty or non-string name, with a
\* missing or wrong-kind factory / instance, or (register) with a factory
\* declaring no parameter fails synchronously at the call site and leaves
\* the Registry, the interface index and the Instance Cache as they were.
C12_InvalidRegistrationFails ==
  []C12_OnlyInvalidRejected /\ [][C12_RejectedStep]_vars

\* register was refused a factory without parameters for a name that is
\* registered, has an interface mapping and a cached value.
C12_Witness ==
  /\ Len(rejected) = 1
  /\ rejected[1].what = "the factory function needs at least 1 argument (callback)"
  /\ rejected[1].call.name \in DOMAIN instances
  /\ registry[rejected[1].call.name].kind # "none"
  /\ \E n \in Names : Len(interfaces[n]) > 0
  /\ Len(regs) = 0

\* ------------------------------------------------------------------ C13
\* The completions of factory invocations made for name under a record
\* marked singleton, as positions in the log resolved (which is in order of
\* completion).
SingletonWrites(name) ==
  {j \in 1..Len(resolved) :
     /\ resolved[j].name = name
     /\ resolved[j].rk # 0
     /\ conts[resolved[j].rk].singleton}

Last(S) == CHOOSE j \in S : \A i \in S : i <= j

\* Two resolutions of the same singleton, both issued while the Instance
\* Cache held no entry for it.
Racing(q1, q2) ==
  /\ q1 < q2
  /\ IsService(q1) /\ IsService(q2)
  /\ reqs[q1].name = reqs[q2].name
  /\ reqs[q1].rec.singleton /\ reqs[q2].rec.singleton
  /\ ~reqs[q1].cached /\ ~reqs[q2].cached

\* C13: when two resolutions of the same not-yet-cached singleton are
\* issued before either completes, there is no in-flight de-duplication:
\* each invokes the factory for itself and receives the value of its own
\* invocation, and the Instance Cache holds the value of the invocation
\* that completed last.
C13_RaceLastWriteWins ==
  /\ \A q1, q2 \in Requests :
       Racing(q1, q2)
       => /\ Cardinality(FactoryRuns(q1)) = 1
          /\ Cardinality(FactoryRuns(q2)) = 1
          /\ FactoryRuns(q1) \cap FactoryRuns(q2) = {}
          /\ \A q \in {q1, q2} : \A i \in 1..Len(delivered[q]) :
               Ok(delivered[q][i])
               => \E j \in SingletonWrites(reqs[q].name) :
                    /\ resolved[j].rk \in FactoryRuns(q)
                    /\ resolved[j].val = delivered[q][i].val
  /\ \A n \in Names :
       /\ n \in DOMAIN instances <=> SingletonWrites(n) # {}
       /\ n \in DOMAIN instances
          => instances[n] = resolved[Last(SingletonWrites(n))].val

\* Two resolutions of the same singleton were in flight together, the one
\* issued first completed last, the callers received different values and
\* the Instance Cache holds the value of the first.
C13_Witness ==
  \E q1, q2 \in Requests :
    /\ Racing(q1, q2)
    /\ Len(delivered[q1]) = 1 /\ Len(delivered[q2]) = 1
    /\ Ok(delivered[q1][1]) /\ Ok(delivered[q2][1])
    /\ delivered[q1][1].val # delivered[q2][1].val
    /\ ResolvedAt(reqs[q1].k) > ResolvedAt(reqs[q2].k)
    /\ instances[reqs[q1].name] = delivered[q1][1].val

\* ------------------------------------------------------------------ C14
\* The callbacks handed to r.factory by resolve (src/index.js:223).
FactoryCallbacks == {j \in 1..Len(conts) : conts[j].type = "resolve"}

\* The factory's callback j was invoked with a failure (its i-th
\* invocation): its caller's callback got the same error, nothing was
\* resolved, and the Instance Cache entry of the name was, when the
\* application's callback ran, as it was when the failure arrived.
FailurePropagated(j, i) ==
  LET c == conts[j]
      par == conts[c.parent]
  IN /\ \E p \in 1..Len(par.got) :
          /\ par.got[p] = Failure(c.got[i].err)
          /\ par.type = "user" => par.saw[p] = c.saw[i]
     /\ \A r \in 1..Len(resolved) : resolved[r].rk # j

\* The factory's callback j was invoked with a value (its i-th
\* invocation): its caller's callback got that value and, for a singleton,
\* the Instance Cache held it under the name when the application's
\* callback ran.
SuccessCachedFirst(j, i) ==
  LET c == conts[j]
      par == conts[c.parent]
  IN \E p \in 1..Len(par.got) :
       /\ par.got[p] = Success(c.got[i].val)
       /\ (par.type = "user" /\ c.singleton)
          => par.saw[p] = [has |-> TRUE, val |-> c.got[i].val]
       /\ (par.type = "user" /\ ~c.singleton) => par.saw[p] = c.saw[i]

\* Request q1 had been answered with a failure when q2, a resolution of the
\* same name, was issued.
FailedBefore(q1, q2) ==
  /\ IsService(q1) /\ IsService(q2)
  /\ reqs[q1].name = reqs[q2].name
  /\ q1 \in reqs[q2].settled
  /\ ~Ok(delivered[q1][1])

\* C14: when a factory signals failure, resolve hands that error to the
\* callback and does not touch the Instance Cache, so a later resolve of
\* the name invokes the factory again; when a singleton's factory signals
\* success, the value is in the Instance Cache by the time the caller's
\* callback runs.
C14_FailureNotCached ==
  /\ \A j \in FactoryCallbacks : \A i \in 1..Len(conts[j].got) :
       IF Ok(conts[j].got[i])
       THEN SuccessCachedFirst(j, i)
       ELSE FailurePropagated(j, i)
  /\ \A q1, q2 \in Requests :
       (FailedBefore(q1, q2) /\ ~reqs[q2].cached)
       => Cardinality(FactoryRuns(q2)) = 1

\* A singleton's factory failed, the error reached the application, the
\* name was resolved again, the factory was invoked again and succeeded,
\* and the application's callback found the value in the Instance Cache.
C14_Witness ==
  /\ Len(reqs) = 2
  /\ FailedBefore(1, 2)
  /\ reqs[1].rec.singleton /\ reqs[2].rec = reqs[1].rec
  /\ delivered[1] = << Failure(FactoryErr) >>
  /\ ~reqs[2].cached
  /\ FunctionRuns(2) # {}
  /\ Len(delivered[2]) = 1 /\ Ok(delivered[2][1])
  /\ conts[reqs[2].k].saw = << [has |-> TRUE, val |-> delivered[2][1].val] >>

\* ------------------------------------------------------------------ C15
\* A step keeps every entry of the Instance Cache, with its value.
C15_EntriesKept ==
  \A n \in DOMAIN instances :
    n \in DOMAIN instances' /\ instances'[n] = instances[n]

\* C15 as stated: once the Instance Cache holds an entry for a name, the
\* entry is never removed and its value never changes.
C15_CacheNeverChanges == [][C15_EntriesKept]_vars

\* A step keeps every entry of the Instance Cache; the value of an entry
\* changes only to the value of a factory invocation for that name, made
\* under a record marked singleton, that completes successfully in the
\* step.
C15_EntriesKeptOrOverwritten ==
  \A n \in DOMAIN instances :
    /\ n \in DOMAIN instances'
    /\ instances'[n] # instances[n]
       => \E j \in NewlyResolved :
            /\ resolved'[j].name = n
            /\ resolved'[j].rk # 0
            /\ conts'[resolved'[j].rk].singleton
            /\ conts'[resolved'[j].rk].got = << Success(instances'[n]) >>

\* C15, amended: an entry of the Instance Cache is never removed; its value
\* is replaced when a later factory invocation for that singleton name
\* completes successfully, and by nothing else.
C15_CacheOnlyOverwritten == [][C15_EntriesKeptOrOverwritten]_vars

\* Two resolutions of a singleton raced: the entry of the name was written
\* with the value of the first to complete and then replaced by the
\* (different, truthy) value of the second.
C15_Witness ==
  \E q1, q2 \in Requests :
    /\ Racing(q1, q2)
    /\ \E i, j \in SingletonWrites(reqs[q1].name) :
         /\ i < j
         /\ Truthy(resolved[i].val) /\ Truthy(resolved[j].val)
         /\ resolved[i].val # resolved[j].val
         /\ {resolved[i].k, resolved[j].k} = {reqs[q1].k, reqs[q2].k}
         /\ instances[reqs[q1].name] = resolved[j].val

\* ------------------------------------------------------------------ C16
\* C16 as stated: each name with an entry in the Instance Cache is
\* registered, its registration is marked singleton, and a resolution of it
\* has completed successfully.
C16_CachedIsSingleton ==
  \A n \in DOMAIN instances :
    /\ registry[n].kind # "none"
    /\ registry[n].singleton
    /\ \E j \in 1..Len(resolved) : resolved[j].name = n

\* The name was registered transient by a call made after construction.
MadeTransient(n) ==
  \E i \in 1..Len(regs) : regs[i].name = n /\ ~regs[i].rec.singleton

\* C16, amended: each name with an entry in the Instance Cache is
\* registered, a resolution of it that reached the factory of a record
\* marked singleton has completed successfully and handed the value to its
\* caller, and its present registration is marked singleton unless the name
\* has been re-registered transient.
C16_CachedWasSingleton ==
  \A n \in DOMAIN instances :
    /\ registry[n].kind # "none"
    /\ \E j \in SingletonWrites(n) :
         \E p \in 1..Len(conts[resolved[j].k].got) :
           conts[resolved[j].k].got[p] = Success(resolved[j].val)
    /\ registry[n].singleton \/ MadeTransient(n)

\* A singleton was re-registered transient while a resolution of it was in
\* flight and nothing was cached; the resolution then completed and stored
\* its value.
C16_Witness ==
  \E n \in DOMAIN instances :
    /\ ~registry[n].singleton
    /\ \E i \in 1..Len(regs) :
         /\ regs[i].name = n
         /\ ~regs[i].cached
         /\ regs[i].before.singleton
         /\ ~regs[i].rec.singleton
    /\ \E q \in Requests :
         /\ IsService(q) /\ reqs[q].name = n
         /\ delivered[q] = << Success(instances[n]) >>

\* ------------------------------------------------------------------ C17
\* C17: for a name that is both a registered service and an interface
\* name, resolve(name) resolves the service, a single value from its
\* factory or from the cache, never the interface group.
C17_ServiceBeforeInterface ==
  \A q \in Requests :
    (IsService(q) /\ Len(reqs[q].impl) > 0)
    => /\ MapsOf(reqs[q].k) = {}
       /\ reqs[q].threw \/ Cardinality(FactoryRuns(q)) = 1 \/ ResolvedAt(reqs[q].k) # 0
       /\ \A i \in 1..Len(delivered[q]) :
            Ok(delivered[q][i])
            => /\ DeliveredFor(reqs[q].k, reqs[q].name, delivered[q][i].val)
               /\ ~delivered[q][i].val.arr

\* A name with two implementations registered under it as an interface,
\* and registered as a service too, was resolved: the service's factory ran
\* and its single value was delivered.
C17_Witness ==
  \E q \in Requests :
    /\ IsService(q)
    /\ Len(reqs[q].impl) = 2
    /\ FunctionRuns(q) # {}
    /\ Len(delivered[q]) = 1
    /\ Ok(delivered[q][1])
    /\ ~delivered[q][1].val.arr

\* ------------------------------------------------------------------ C18
\* The interfaces a registration call declares.
Tags(ifs) == {ifs[p] : p \in 1..Len(ifs)}

\* A step that stores a registration appends the name once to the sequence
\* of each interface the call declares and leaves the other sequences as
\* they are; any other step leaves the interface index as it is.
C18_AppendOnly ==
  IF regs' # regs
  THEN LET e == regs'[Len(regs')]
       IN /\ Len(regs') = Len(regs) + 1
          /\ registry'[e.name] = e.rec
          /\ \A x \in Names :
               interfaces'[x] = IF x \in Tags(e.config.interfaces)
                                THEN Append(interfaces[x], e.name)
                                ELSE interfaces[x]
  ELSE interfaces' = interfaces

\* Every name in an implementation sequence is in the Registry.
C18_ImplementationsRegistered ==
  \A x \in Names : \A p \in 1..Len(interfaces[x]) :
    registry[interfaces[x][p]].kind # "none"

\* C18: each successful registration appends the name once to the
\* implementation sequence of every interface it declares; sequences only
\* grow, in registration order (a duplicate when a name is re-registered
\* under the same interface, no removal when it is re-registered without
\* it), and every name in a sequence is present in the Registry.
C18_InterfaceIndex ==
  []C18_ImplementationsRegistered /\ [][C18_AppendOnly]_vars

\* A name already in an interface's sequence was re-registered under the
\* same interface: it is in the sequence twice, in registration order.
C18_Witness ==
  /\ interfaces["i"] = << "a", "b", "a" >>
  /\ Len(regs) = 1
  /\ regs[1].name = "a"
  /\ regs[1].before.kind # "none"

\* ------------------------------------------------------------------ C19
\* The names whose resolution a record's asyncFactory asks for.
Dependencies(r) ==
  CASE r.kind = "async" -> getDependenciesNames(r.fac, TRUE)
    [] r.kind \in {"sync", "ctor"} -> getDependenciesNames(r.fac, FALSE)
    [] OTHER -> <<>>

\* In the Registry reg and the interface index ifs, the dependency graph
\* reachable from name holds no service twice on one path (path: the
\* services being resolved), and no factory in it raises instead of
\* signalling its completion.
RECURSIVE Sound(_, _, _, _)
Sound(reg, ifs, name, path) ==
  LET r == IF name \in Names THEN reg[name] ELSE NoReg
      impl == IF name \in Names THEN ifs[name] ELSE <<>>
      deps == Dependencies(r)
  IN IF r.kind = "none"
     THEN \A p \in 1..Len(impl) : Sound(reg, ifs, impl[p], path)
     ELSE /\ name \notin path
          /\ r.fac.beh # "throw"
          /\ \A p \in 1..Len(deps) : Sound(reg, ifs, deps[p], path \cup {name})

\* What request q asked for is acyclic and made of factories that signal
\* their completion, in the Registry as it was when q was issued.
Completable(q) ==
  LET asked == IF IsCall(q) THEN getDependenciesNames(reqs[q].fac, TRUE)
               ELSE IF reqs[q].list THEN reqs[q].names
               ELSE << reqs[q].name >>
  IN /\ IsCall(q) => reqs[q].fac.beh # "throw"
     /\ \A p \in 1..Len(asked) :
          Sound(reqs[q].registry, reqs[q].interfaces, asked[p], {})

\* The callback of a completable request is invoked at most once, with an
\* error or with a value, not both.
C19_AtMostOnce ==
  \A q \in Requests :
    Completable(q)
    => /\ Len(delivered[q]) <= 1
       /\ \A i \in 1..Len(delivered[q]) :
            ~Ok(delivered[q][i]) => delivered[q][i].val = Undefined
       /\ ~reqs[q].threw

\* The callback of a completable request is eventually invoked.
C19_Eventually ==
  \A q \in 1..MaxReqs :
    (q \in Requests /\ Completable(q)) ~> (q \in Requests /\ Len(delivered[q]) = 1)

\* The steps the fairness conditions of LiveSpec speak of are the steps of
\* Immediate and of Complete.
C19_FairSteps ==
  /\ ImmediateRuns <=> Immediate
  /\ CompletionSignalled <=> (\E k \in pending, o \in Outcomes : Complete(k, o))

Edges(reg, ifs, n) ==
  LET deps == Dependencies(reg[n])
  IN UNION { IF deps[p] \notin Names THEN {}
             ELSE IF reg[deps[p]].kind # "none" THEN {deps[p]}
             ELSE Tags(ifs[deps[p]]) : p \in 1..Len(deps) }

\* The services reached from the services in S in at most steps more steps.
RECURSIVE Reach(_, _, _, _)
Reach(reg, ifs, S, steps) ==
  IF steps = 0 THEN S
  ELSE Reach(reg, ifs, S \cup UNION {Edges(reg, ifs, n) : n \in S}, steps - 1)

\* The services n depends on, directly or transitively.
DependsOn(reg, ifs, n) ==
  Reach(reg, ifs, Edges(reg, ifs, n), Cardinality(Names))

\* The services on a dependency cycle through n.
CycleOf(reg, ifs, n) ==
  {x \in DependsOn(reg, ifs, n) : n \in DependsOn(reg, ifs, x)}

\* Request q resolves a service that had no entry in the Instance Cache and
\* depended, directly or transitively, on itself when q was issued.
ResolvesCycle(q) ==
  /\ IsService(q)
  /\ ~reqs[q].cached
  /\ reqs[q].name \in DependsOn(reqs[q].registry, reqs[q].interfaces, reqs[q].name)

\* The request on whose behalf callback k was created.
RECURSIVE RootOf(_)
RootOf(k) ==
  LET c == conts[k]
  IN CASE c.type = "user" -> c.req
       [] c.type = "item" -> RootOf(maps[c.map].parent)
       [] OTHER -> RootOf(c.parent)

\* The factory callbacks of the resolutions in progress around callback k:
\* the services being resolved when k was created.
RECURSIVE InProgress(_)
InProgress(k) ==
  LET c == conts[k]
  IN CASE c.type = "user" -> {}
       [] c.type = "item" -> InProgress(maps[c.map].parent)
       [] c.type = "call" -> InProgress(c.parent)
       [] c.type = "resolve" -> {k} \cup InProgress(c.parent)

\* Factory callback j belongs to a resolution of a service that was already
\* being resolved: the resolution came back to it.
CameBack(j) ==
  /\ conts[j].type = "resolve"
  /\ \E a \in InProgress(conts[j].parent) : conts[a].name = conts[j].name

\* The exception that left the engine when request q was issued ("": none).
ThrownAt(q) ==
  IF \E i \in 1..Len(thrown) : thrown[i].req = q
  THEN thrown[CHOOSE i \in 1..Len(thrown) : thrown[i].req = q].what
  ELSE ""

NoValue(q) == \A i \in 1..Len(delivered[q]) : ~Ok(delivered[q][i])

NoCircularError ==
  \A k \in 1..Len(conts) : \A i \in 1..Len(conts[k].got) :
    conts[k].got[i].err.type \in {"none", "unknown service or interface", "factory error"}

\* C20 as stated: resolving a not-yet-cached service whose dependencies
\* form a cycle delivers no 'circular dependency' error, recurses without
\* bound, and never invokes the caller's callback with a value.
C20_CycleRecurses ==
  /\ NoCircularError
  /\ \A q \in Requests :
       ResolvesCycle(q) => ThrownAt(q) = "RangeError" /\ NoValue(q)

\* C20, amended: no 'circular dependency' error is ever delivered; a
\* resolution that comes back to a service it is already resolving
\* recurses without bound, the stack exhaustion leaves resolve / call, and
\* the caller's callback is never invoked with a value.  The resolution of
\* a not-yet-cached service on a cycle does come back to it unless a
\* service on the cycle is served from the Instance Cache or a factory
\* raises first.
C20_CycleRecursesUnlessCut ==
  /\ NoCircularError
  /\ \A j \in 1..Len(conts) :
       CameBack(j) => ThrownAt(RootOf(j)) = "RangeError" /\ NoValue(RootOf(j))
  /\ \A q \in Requests :
       ThrownAt(q) = "RangeError"
       => \E j \in 1..Len(conts) : CameBack(j) /\ RootOf(j) = q
  /\ \A q \in Requests :
       ResolvesCycle(q)
       => \/ \E j \in 1..Len(conts) : CameBack(j) /\ RootOf(j) = q
          \/ ThrownAt(q) = "Error" /\ NoValue(q)
          \/ \E r \in 1..Len(resolved) :
               /\ resolved[r].cached
               /\ RootOf(resolved[r].k) = q
               /\ resolved[r].name \in
                    CycleOf(reqs[q].registry, reqs[q].interfaces, reqs[q].name)

\* A service that depends on itself through a second service was resolved
\* with no entry of its own in the Instance Cache, no factory around
\* raising, while the second service had a cached value: the cycle was cut
\* there and the caller's callback got a value.
C20_Witness ==
  \E q \in Requests :
    /\ ResolvesCycle(q)
    /\ Cardinality(CycleOf(reqs[q].registry, reqs[q].interfaces, reqs[q].name)) = 2
    /\ \A n \in Names : reqs[q].registry[n].fac.beh # "throw"
    /\ ThrownAt(q) = ""
    /\ Len(delivered[q]) = 1 /\ Ok(delivered[q][1])
    /\ \E r \in 1..Len(resolved) :
         /\ resolved[r].cached
         /\ RootOf(resolved[r].k) = q
         /\ resolved[r].name # reqs[q].name
         /\ resolved[r].name \in
              CycleOf(reqs[q].registry, reqs[q].interfaces, reqs[q].name)

\* A service that depends on itself was resolved with nothing cached: the
\* resolution came back to it, the stack was exhausted, and the callback
\* was invoked later with the error of another dependency, not a value.
C20_RecursionSeen ==
  \E q \in Requests :
    /\ ResolvesCycle(q)
    /\ ThrownAt(q) = "RangeError"
    /\ Len(delivered[q]) = 1
    /\ ~Ok(delivered[q][1])

====
